---- MODULE Spec2Model ----
(***************************************************************************)
(* QURTest (src/main.cpp): parse the command line, generate a random       *)
(* message, wrap it as a UR object, render its lifehash, encode it as UR   *)
(* strings, render them as QR images, composite and animate them.          *)
(*                                                                         *)
(* Machine widths are scaled so that the values stay inside TLC's          *)
(* integers: size_t / unsigned long is SizeBits wide (64 in the build),    *)
(* int is IntBits wide (32 in the build).  All wrap-arounds and            *)
(* truncations are computed modulo these widths.                           *)
(* Assertions are taken to be compiled in (no NDEBUG).                     *)
(***************************************************************************)
EXTENDS Integers, Sequences, FiniteSets, TLC

VARIABLES
    args,           \* argv[1..argc-1]; argv[argc] is the null pointer
    seed,           \* time(nullptr) as read by MakeMessage
    pc,             \* the stage main is about to run, or "loop"/"exited"/"aborted"
    outcome,        \* how the process ended ("running" while it has not)
    stages,         \* stages started so far, in order
    i,              \* loop index of ParseCommandLineArguments
    result,         \* the CommandLineArguments record being filled
    maxRead,        \* largest index of argv read so far
    flagAt,         \* index of the last value-taking flag handled (0: none)
    usagePrinted,   \* the usage text has been written to cerr
    madeMessage,    \* bytes returned by MakeMessage
    ur,             \* the ur::UR made by MakeMessageUr
    lifeHashImage,  \* result of CreateLifeHashImage
    seqLen,         \* encoder.seq_len() of the multi-part encoder
    urs,            \* result of CreateUrs
    qurImages,      \* result of CreateQurImages
    images,         \* composited frames of Present
    idx,            \* loop index i of Present
    shown,          \* indices of the frames passed to imshow, in order
    waited,         \* waitKey has been called
    lastKey,        \* value returned by the last waitKey
    delay           \* delay handed to the last waitKey

inVars   == <<args, seed>>
ctlVars  == <<pc, outcome, stages>>
parseVars == <<i, result, maxRead, flagAt, usagePrinted>>
pipeVars == <<madeMessage, ur, lifeHashImage, seqLen, urs, qurImages>>
loopVars == <<images, idx, shown, waited, lastKey, delay>>
vars == <<inVars, ctlVars, parseVars, pipeVars, loopVars>>

(***************************************************************************)
(* Bounds of the model.                                                    *)
(***************************************************************************)
MaxArgs == 3
MaxSeed == 1
MaxSeqLen == 3
MaxShown == 4
SizeBits == 12
IntBits == 11

SizeMod == 2 ^ SizeBits
ULONG_MAX == SizeMod - 1
IntMod == 2 ^ IntBits
INT_MAX == (IntMod \div 2) - 1
INT_MIN == - (IntMod \div 2)

Max(a, b) == IF a >= b THEN a ELSE b

(***************************************************************************)
(* Command-line tokens, as sequences of characters.                        *)
(***************************************************************************)
Flag_m == <<"-", "m">>
Flag_l == <<"-", "l">>
Flag_f == <<"-", "f">>
Flag_e == <<"-", "e">>
Flag_h == <<"-", "h">>
Flag_s == <<"-", "s">>
Flag_t == <<"-", "t">>
ValueFlags == {Flag_l, Flag_f, Flag_e, Flag_s, Flag_t}
Flags == ValueFlags \cup {Flag_m, Flag_h}

Tokens ==
    Flags \cup
    { <<"-", "x">>,                 \* not an option
      <<"0">>,
      <<" ", "3">>,                 \* a number after white space
      <<"1", "4", "6", "6">>,       \* MAX_LENGTH + 1
      <<"-", "2">>,                 \* accepted by strtoul, negated
      <<"a", "b">>,                 \* no number at all
      <<"7", "z">>,                 \* a number followed by garbage
      <<"9", "9", "9", "9">> }      \* more than ULONG_MAX (scaled)

RECURSIVE SeqsUpTo(_)
SeqsUpTo(n) ==
    IF n = 0 THEN { <<>> }
    ELSE LET S == SeqsUpTo(n - 1)
         IN  S \cup { Append(s, t) : s \in { x \in S : Len(x) = n - 1 }, t \in Tokens }

argc == Len(args) + 1

(***************************************************************************)
(* std::stoul(str) = strtoul(str, &end, 10) with the checks of libstdc++:  *)
(* leading white space is skipped, then an optional sign, then decimal     *)
(* digits; no digit: std::invalid_argument;                                *)
(* magnitude above ULONG_MAX: std::out_of_range; a leading '-' negates the *)
(* magnitude in unsigned arithmetic; trailing characters are ignored.      *)
(***************************************************************************)
DigitChars == <<"0", "1", "2", "3", "4", "5", "6", "7", "8", "9">>
IsDigit(c) == \E k \in 1..10 : DigitChars[k] = c
DigitVal(c) == (CHOOSE k \in 1..10 : DigitChars[k] = c) - 1

WhiteSpace == {" ", "\t", "\n", "\r", "\f"}

RECURSIVE SpaceRun(_, _)
SpaceRun(s, from) ==
    IF from <= Len(s) /\ s[from] \in WhiteSpace THEN 1 + SpaceRun(s, from + 1) ELSE 0

RECURSIVE DigitRun(_, _)
DigitRun(s, from) ==
    IF from <= Len(s) /\ IsDigit(s[from]) THEN 1 + DigitRun(s, from + 1) ELSE 0

RECURSIVE Magnitude(_, _, _, _)
Magnitude(s, from, n, acc) ==
    IF n = 0 THEN acc
    ELSE Magnitude(s, from + 1, n - 1,
                   IF acc > ULONG_MAX THEN acc ELSE acc * 10 + DigitVal(s[from]))

stoul(s) ==
    LET start  == 1 + SpaceRun(s, 1)
        signed == start <= Len(s) /\ s[start] \in {"-", "+"}
        from   == IF signed THEN start + 1 ELSE start
        n      == DigitRun(s, from)
        mag    == Magnitude(s, from, n, 0)
    IN  IF n = 0 THEN [status |-> "invalid_argument", value |-> 0]
        ELSE IF mag > ULONG_MAX THEN [status |-> "out_of_range", value |-> 0]
        ELSE [status |-> "ok",
              value  |-> IF signed /\ s[start] = "-" THEN (SizeMod - mag) % SizeMod ELSE mag]

\* unsigned long -> int
ToInt(v) ==
    LET m == v % IntMod
    IN  IF m > INT_MAX THEN m - IntMod ELSE m

\* struct CommandLineArguments with its default member initialisers
CommandLineArguments ==
    [ isSinglePart      |-> TRUE,
      messageLength     |-> 100,
      maxFragmentLength |-> 100,
      numExtraParts     |-> 0,
      qrSize            |-> 256,
      lifeHashImageSize |-> 128,
      fps               |-> 4 ]

MAX_LENGTH == 2956 \div 2 - 13

\* the assignment made by the branch of a value-taking flag
StoreValue(r, flag, v) ==
    CASE flag = Flag_l -> [r EXCEPT !.messageLength = v]
      [] flag = Flag_f -> [r EXCEPT !.maxFragmentLength = v]
      [] flag = Flag_e -> [r EXCEPT !.numExtraParts = v]
      [] flag = Flag_s -> [r EXCEPT !.qrSize = ToInt(v)]
      [] flag = Flag_t -> [r EXCEPT !.fps = ToInt(v)]

\* variant: the multi-part assert is left out
RangeOK_SinglePartOnly(r) ==
    r.isSinglePart => r.messageLength <= MAX_LENGTH

\* the two asserts after the loop
RangeOK(r) ==
    IF r.isSinglePart
    THEN r.messageLength <= MAX_LENGTH
    ELSE r.messageLength >= r.maxFragmentLength /\ r.maxFragmentLength <= MAX_LENGTH

(***************************************************************************)
(* main: the order of its calls.                                           *)
(***************************************************************************)
MainOrder == <<"parse", "generate", "wrap", "lifehash", "encode", "qr", "present">>

\* variant: CreateLifeHashImage called after CreateQurImages
After_QrFirst(stage) ==
    LET order == <<"parse", "generate", "wrap", "encode", "qr", "lifehash", "present">>
        k == CHOOSE j \in 1..Len(order) : order[j] = stage
    IN  order[k + 1]

After(stage) ==
    LET k == CHOOSE j \in 1..Len(MainOrder) : MainOrder[j] = stage
    IN  MainOrder[k + 1]

Goto(stage) ==
    /\ pc' = After(stage)
    /\ stages' = Append(stages, After(stage))
    /\ outcome' = outcome

Abort(how) ==
    /\ pc' = "aborted"
    /\ outcome' = how
    /\ stages' = stages

Init ==
    /\ args \in SeqsUpTo(MaxArgs)
    /\ seed \in 0..MaxSeed
    /\ pc = "parse"
    /\ outcome = "running"
    /\ stages = <<"parse">>
    /\ i = 1
    /\ result = CommandLineArguments
    /\ maxRead = 0
    /\ flagAt = 0
    /\ usagePrinted = FALSE
    /\ madeMessage = <<>>
    /\ ur = [type |-> "", cbor |-> <<>>]
    /\ lifeHashImage = [data |-> <<>>, cols |-> 0, rows |-> 0]
    /\ seqLen = 0
    /\ urs = <<>>
    /\ qurImages = <<>>
    /\ images = <<>>
    /\ idx = 0
    /\ shown = <<>>
    /\ waited = FALSE
    /\ lastKey = 0
    /\ delay = 0

(***************************************************************************)
(* ParseCommandLineArguments, one action per loop iteration and branch.    *)
(***************************************************************************)
InLoop == pc = "parse" /\ i < argc

ParseMulti ==
    /\ InLoop
    /\ args[i] = Flag_m
    /\ result' = [result EXCEPT !.isSinglePart = FALSE]
    /\ i' = i + 1
    /\ maxRead' = Max(maxRead, i)
    /\ UNCHANGED <<flagAt, usagePrinted, inVars, ctlVars, pipeVars, loopVars>>

ParseValueFlag ==
    /\ InLoop
    /\ args[i] \in ValueFlags
    /\ flagAt' = i
    /\ IF ~ (i + 1 <= argc)
       THEN \* assert(i+1 <= argc && "Value expected.")
            /\ Abort("assert: Value expected.")
            /\ maxRead' = Max(maxRead, i)
            /\ UNCHANGED <<i, result>>
       ELSE IF i + 1 = argc
       THEN \* argv[argc] is null: std::string(nullptr) is undefined behaviour
            /\ \E how \in {"uncaught std::logic_error", "segmentation fault"} : Abort(how)
            /\ maxRead' = Max(maxRead, i + 1)
            /\ UNCHANGED <<i, result>>
       ELSE LET r == stoul(args[i + 1])
            IN  /\ maxRead' = Max(maxRead, i + 1)
                /\ IF r.status = "ok"
                   THEN /\ result' = StoreValue(result, args[i], r.value)
                        /\ i' = i + 2
                        /\ UNCHANGED ctlVars
                   ELSE /\ Abort("uncaught std::" \o r.status)
                        /\ UNCHANGED <<i, result>>
    /\ UNCHANGED <<usagePrinted, inVars, pipeVars, loopVars>>

\* variant: the usage is printed but exit(0) is missing
ParseHelp_NoExit ==
    /\ InLoop
    /\ args[i] = Flag_h
    /\ usagePrinted' = TRUE
    /\ i' = i + 1
    /\ maxRead' = Max(maxRead, i)
    /\ UNCHANGED <<result, flagAt, inVars, ctlVars, pipeVars, loopVars>>

ParseHelp ==
    /\ InLoop
    /\ args[i] = Flag_h
    /\ usagePrinted' = TRUE
    /\ pc' = "exited"
    /\ outcome' = "exit(0)"
    /\ maxRead' = Max(maxRead, i)
    /\ UNCHANGED <<stages, i, result, flagAt, inVars, pipeVars, loopVars>>

\* variant: an unknown argument is skipped
ParseUnexpected_Skip ==
    /\ InLoop
    /\ args[i] \notin Flags
    /\ i' = i + 1
    /\ maxRead' = Max(maxRead, i)
    /\ UNCHANGED <<result, flagAt, usagePrinted, inVars, ctlVars, pipeVars, loopVars>>

ParseUnexpected ==
    /\ InLoop
    /\ args[i] \notin Flags
    /\ Abort("assert: Unexpected command line argument")
    /\ maxRead' = Max(maxRead, i)
    /\ UNCHANGED <<i, result, flagAt, usagePrinted, inVars, pipeVars, loopVars>>

ParseReturn ==
    /\ pc = "parse"
    /\ ~ (i < argc)
    /\ IF RangeOK(result)
       THEN Goto("parse")
       ELSE Abort(IF result.isSinglePart
                  THEN "assert: Message too long for single part UR"
                  ELSE "assert: Fragment too long")
    /\ UNCHANGED <<parseVars, inVars, pipeVars, loopVars>>

(***************************************************************************)
(* MakeMessage / MakeMessageUr.                                            *)
(***************************************************************************)
\* ur::Xoshiro256(seed).next_data(len): len bytes determined by the seed
next_data(sd, len) == [k \in 1..len |-> (sd * 31 + k * 7) % 256]

\* ur::CborLite::encodeBytes: the header of a byte string (major type 2)
\* followed by the bytes themselves
CborHeader(len) ==
    IF len < 24 THEN <<64 + len>>
    ELSE IF len < 256 THEN <<88, len>>
    ELSE <<89, len \div 256, len % 256>>

encodeBytes(bytes) == CborHeader(Len(bytes)) \o bytes

MakeMessage ==
    /\ pc = "generate"
    /\ madeMessage' = next_data(seed, result.messageLength)
    /\ Goto("generate")
    /\ UNCHANGED <<ur, lifeHashImage, seqLen, urs, qurImages, inVars, parseVars, loopVars>>

MakeMessageUr ==
    /\ pc = "wrap"
    /\ ur' = [type |-> "bytes", cbor |-> encodeBytes(madeMessage)]
    /\ Goto("wrap")
    /\ UNCHANGED <<madeMessage, lifeHashImage, seqLen, urs, qurImages, inVars, parseVars, loopVars>>

(***************************************************************************)
(* CreateLifeHashImage: the lifehash of message.cbor(), resized.           *)
(***************************************************************************)
\* variant: the lifehash of the bare message bytes
CreateLifeHashImage_OfMessage ==
    /\ pc = "lifehash"
    /\ lifeHashImage' = [data |-> madeMessage,
                         cols |-> result.lifeHashImageSize,
                         rows |-> result.lifeHashImageSize]
    /\ Goto("lifehash")
    /\ UNCHANGED <<madeMessage, ur, seqLen, urs, qurImages, inVars, parseVars, loopVars>>

CreateLifeHashImage ==
    /\ pc = "lifehash"
    /\ lifeHashImage' = [data |-> ur.cbor,
                         cols |-> result.lifeHashImageSize,
                         rows |-> result.lifeHashImageSize]
    /\ Goto("lifehash")
    /\ UNCHANGED <<madeMessage, ur, seqLen, urs, qurImages, inVars, parseVars, loopVars>>

(***************************************************************************)
(* CreateUrs.  A UR string is represented by what identifies it: the UR    *)
(* type, the length of the CBOR it carries and, for a part of a multi-part *)
(* UR, its sequence number (next_part() counts from 1) and seq_len.        *)
(***************************************************************************)
GenerateSinglePartUr(message) ==
    [type |-> message.type, len |-> Len(message.cbor), seqNum |-> 0, seqLen |-> 0]

\* for (size_t i = 0; i < encoder.seq_len() + numExtraParts; ++i), in size_t
GenerateMultiPartUr(message, sl, numExtraParts) ==
    [k \in 1..((sl + numExtraParts) % SizeMod) |->
        [type |-> message.type, len |-> Len(message.cbor), seqNum |-> k, seqLen |-> sl]]

\* encoder.seq_len(): the number of fragments the encoder cuts message.cbor()
\* into, each at most maxFragmentLen long.  The CBOR is longer than
\* messageLength >= maxFragmentLength, so there are at least two.
SeqLens == 2..MaxSeqLen

CreateUrs ==
    /\ pc = "encode"
    /\ IF result.isSinglePart
       THEN /\ urs' = <<GenerateSinglePartUr(ur)>>
            /\ seqLen' = seqLen
       ELSE \E sl \in SeqLens :
            /\ seqLen' = sl
            /\ urs' = GenerateMultiPartUr(ur, sl, result.numExtraParts)
    /\ Goto("encode")
    /\ UNCHANGED <<madeMessage, ur, lifeHashImage, qurImages, inVars, parseVars, loopVars>>

(***************************************************************************)
(* CreateQurImages: one image per string, in the order of the strings.     *)
(***************************************************************************)
CreateQurImages ==
    /\ pc = "qr"
    /\ qurImages' = [k \in 1..Len(urs) |->
                        [qr |-> urs[k], cols |-> result.qrSize, rows |-> result.qrSize]]
    /\ Goto("qr")
    /\ UNCHANGED <<madeMessage, ur, lifeHashImage, seqLen, urs, inVars, parseVars, loopVars>>

(***************************************************************************)
(* Present: compositing, then the display loop.                            *)
(***************************************************************************)
MARGIN == 10
ESC == 27
Keys == {ESC, 32}

\* int size = lifeHashImage.cols; size = std::max(img.cols, size) for each image
MaxCols(imgs, size) ==
    LET S == {size} \cup {imgs[k].cols : k \in 1..Len(imgs)}
    IN  CHOOSE m \in S : \A x \in S : m >= x

PresentCompose ==
    /\ pc = "present"
    /\ LET size == MaxCols(qurImages, lifeHashImage.cols)
       IN  images' = [k \in 1..Len(qurImages) |->
                        [cols |-> 2 * MARGIN + size,
                         rows |-> 3 * MARGIN + lifeHashImage.rows + size,
                         lifeHash |-> <<lifeHashImage.cols, lifeHashImage.rows>>,
                         qur |-> qurImages[k]]]
    /\ idx' = 0
    /\ pc' = "loop"
    /\ UNCHANGED <<outcome, stages, shown, waited, lastKey, delay, inVars, parseVars, pipeVars>>

\* the int that 1000.0 / fps converts to; the conversion of an infinity is
\* undefined behaviour (INT_MIN on x86, INT_MAX on ARM)
WaitDelays(fps) ==
    IF fps = 0 THEN {INT_MIN, INT_MAX}
    ELSE IF fps > 0 THEN {1000 \div fps}
    ELSE {- (1000 \div (- fps))}

\* cv::waitKey(d): a key code, or -1 when d > 0 milliseconds pass without a
\* key; d <= 0 waits for a key without limit
WaitKeys(d) == Keys \cup (IF d > 0 THEN {-1} ELSE {})

PresentEsc ==
    /\ pc = "loop"
    /\ \E d \in WaitDelays(result.fps) :
        /\ delay' = d
        /\ waited' = TRUE
        /\ ESC \in WaitKeys(d)
        /\ lastKey' = ESC
    /\ pc' = "exited"
    /\ outcome' = "return 0"
    /\ UNCHANGED <<stages, images, idx, shown, inVars, parseVars, pipeVars>>

\* variant: the index is incremented without the modulo
PresentShow_NoWrap ==
    /\ pc = "loop"
    /\ Len(images) > 0
    /\ Len(shown) < MaxShown
    /\ \E d \in WaitDelays(result.fps) :
        /\ delay' = d
        /\ waited' = TRUE
        /\ \E key \in WaitKeys(d) \ {ESC} : lastKey' = key
    /\ shown' = Append(shown, idx)
    /\ idx' = idx + 1
    /\ UNCHANGED <<ctlVars, images, inVars, parseVars, pipeVars>>

PresentShow ==
    /\ pc = "loop"
    /\ Len(images) > 0
    /\ Len(shown) < MaxShown
    /\ \E d \in WaitDelays(result.fps) :
        /\ delay' = d
        /\ waited' = TRUE
        /\ \E key \in WaitKeys(d) \ {ESC} : lastKey' = key
    /\ shown' = Append(shown, idx)
    /\ idx' = (idx + 1) % Len(images)
    /\ UNCHANGED <<ctlVars, images, inVars, parseVars, pipeVars>>

\* images[i] and i % images.size() on an empty vector: undefined behaviour
PresentEmpty ==
    /\ pc = "loop"
    /\ Len(images) = 0
    /\ \E d \in WaitDelays(result.fps) :
        /\ delay' = d
        /\ waited' = TRUE
        /\ \E key \in WaitKeys(d) \ {ESC} : lastKey' = key
    /\ \E how \in {"segmentation fault", "SIGFPE"} : Abort(how)
    /\ UNCHANGED <<images, idx, shown, inVars, parseVars, pipeVars>>

Next ==
    \/ ParseMulti
    \/ ParseValueFlag
    \/ ParseHelp
    \/ ParseUnexpected
    \/ ParseReturn
    \/ MakeMessage
    \/ MakeMessageUr
    \/ CreateLifeHashImage
    \/ CreateUrs
    \/ CreateQurImages
    \/ PresentCompose
    \/ PresentEsc
    \/ PresentShow
    \/ PresentEmpty

Spec == Init /\ [][Next]_vars


(***************************************************************************)
(* Properties.                                                             *)
(***************************************************************************)
Terminated == pc \in {"exited", "aborted"}
AssertOutcomes ==
    { "assert: Value expected.",
      "assert: Unexpected command line argument",
      "assert: Message too long for single part UR",
      "assert: Fragment too long" }
HasHelp == \E k \in 1..Len(args) : args[k] = Flag_h
Started(stage) == \E k \in 1..Len(stages) : stages[k] = stage
Done(stage) == Started(stage) /\ pc # stage
IsPrefix(s, t) == Len(s) <= Len(t) /\ \A k \in 1..Len(s) : s[k] = t[k]
RECURSIVE Trimmed(_)
Trimmed(s) == IF s # <<>> /\ s[1] \in WhiteSpace THEN Trimmed(Tail(s)) ELSE s
\* what follows the leading white space and the optional sign
Unsigned(s) ==
    LET t == Trimmed(s)
    IN  IF t # <<>> /\ t[1] \in {"-", "+"} THEN Tail(t) ELSE t
\* a decimal numeral, optionally signed
IsNumeral(s) ==
    LET t == IF s # <<>> /\ s[1] \in {"-", "+"} THEN Tail(s) ELSE s
    IN  t # <<>> /\ \A k \in 1..Len(t) : IsDigit(t[k])
\* no digit where the number should start
NoNumber(s) == Unsigned(s) = <<>> \/ ~ IsDigit(Unsigned(s)[1])

\* C1: when a value-taking flag is the last argument, parsing ends in the
\* "Value expected." assertion failure and no argv[k] with k >= argc is read.
C1_ValueExpected ==
    (flagAt > 0 /\ flagAt = argc - 1) =>
        (outcome = "assert: Value expected." /\ maxRead < argc)

\* C2 as stated: if -h is anywhere among the arguments the run ends by
\* printing the usage and exit(0), no message generated, no window shown.
C2_HelpAnywhere ==
    (HasHelp /\ Terminated) =>
        (usagePrinted /\ outcome = "exit(0)" /\ stages = <<"parse">> /\ ~ waited)

\* C2 amended: with -h among the arguments no message is generated and no
\* window is shown; the usage is printed and the process exits with status 0
\* exactly when the parse loop stops at -h as an option, otherwise the process
\* was aborted at an earlier argument without printing the usage.
C2_HelpReached ==
    HasHelp =>
        /\ stages = <<"parse">>
        /\ ~ waited
        /\ pc \in {"parse", "exited", "aborted"}
        /\ (usagePrinted => pc = "exited")
        /\ (Terminated =>
                /\ i < argc
                /\ (args[i] = Flag_h) <=> (usagePrinted /\ pc = "exited" /\ outcome = "exit(0)")
                /\ (args[i] # Flag_h) <=> (pc = "aborted"))

W_C2_HelpReached == HasHelp /\ pc = "exited" /\ outcome = "exit(0)" /\ usagePrinted /\ i > 1

\* C3: the display loop ends exactly when waitKey returns ESC: after any
\* other key or a timeout the loop is still running, and after ESC the
\* program has returned 0.
C3_EscOnly ==
    /\ (waited /\ lastKey # ESC) => pc = "loop"
    /\ (waited /\ lastKey = ESC) => (pc = "exited" /\ outcome = "return 0")
    /\ (Started("present") /\ Terminated) => (waited /\ lastKey = ESC)

\* C4: once ParseCommandLineArguments has returned, the record satisfies the
\* range check of its mode (MAX_LENGTH = 1465), so no record violating it
\* reaches message generation.
C4_RangeChecks ==
    /\ MAX_LENGTH = 1465
    /\ Started("generate") =>
          IF result.isSinglePart
          THEN result.messageLength <= 1465
          ELSE /\ result.messageLength >= result.maxFragmentLength
               /\ result.maxFragmentLength <= 1465

W_C4_RangeChecks ==
    /\ Started("generate")
    /\ ~ result.isSinglePart
    /\ result.maxFragmentLength < result.messageLength

\* C5 as stated: the stages run in the order parse, generate, wrap, encode,
\* QR images, lifehash, present (lifehash after the QR images).
C5_LifeHashAfterQr ==
    IsPrefix(stages, <<"parse", "generate", "wrap", "encode", "qr", "lifehash", "present">>)

\* C5 amended: the stages run strictly one after another in the order parse,
\* generate, wrap, lifehash, encode, QR images, present: the lifehash image
\* is rendered before the UR strings are encoded and the QR images rendered.
C5_StageOrder ==
    /\ IsPrefix(stages, <<"parse", "generate", "wrap", "lifehash", "encode", "qr", "present">>)
    /\ (pc \notin {"loop", "exited", "aborted"}) => pc = stages[Len(stages)]
    /\ (pc = "loop") => Len(stages) = 7
    /\ Started("encode") => lifeHashImage.data # <<>>
    /\ (urs # <<>> \/ qurImages # <<>>) => Done("lifehash")

W_C5_StageOrder == pc = "loop" /\ Len(stages) = 7 /\ qurImages # <<>>

C8_Cycle ==
    (pc \in {"loop", "exited"} /\ Len(images) >= 1) =>
        LET n == Len(images)
        IN  /\ 0 <= idx /\ idx < n
            /\ \A k \in 1..Len(shown) : shown[k] = (k - 1) % n
            /\ idx = Len(shown) % n
            /\ (waited /\ lastKey # ESC) => shown # <<>>

W_C8_Cycle == pc = "loop" /\ Len(images) >= 2 /\ Len(shown) > Len(images)

\* C9: whatever value of -t was accepted, every key-wait of the display loop
\* has the timeout 1000/fps, finite and strictly positive.
C9_PositiveTimeout ==
    waited =>
        (result.fps > 0 /\ delay = 1000 \div result.fps /\ delay > 0)

\* C10: single-part mode yields exactly one string, QR image and frame;
\* multi-part mode yields seq_len + numExtraParts strings, the consecutive
\* next_part() results, and as many QR images and frames in the same order;
\* the frame list is not empty when the display loop starts.
C10_FrameCount ==
    (pc = "loop") =>
        /\ IF result.isSinglePart
           THEN Len(urs) = 1
           ELSE /\ Len(urs) = seqLen + result.numExtraParts
                /\ \A k \in 1..Len(urs) : urs[k].seqNum = k
        /\ Len(qurImages) = Len(urs)
        /\ Len(images) = Len(urs)
        /\ \A k \in 1..Len(urs) : qurImages[k].qr = urs[k] /\ images[k].qur = qurImages[k]
        /\ Len(images) >= 1

====
